---- MODULE Spec2Model ----
(***************************************************************************)
(* A model of GraphQLSession (src/src/graphql_requests/graphql_requests.py)*)
(* : a session bound to one URI which wraps a `requests` Session, forwards *)
(* attribute access to it, injects the URI into the HTTP verb methods, and *)
(* adds `query`, which validates its arguments and posts either a JSON     *)
(* body or a multipart upload.                                             *)
(*                                                                         *)
(* The wrapped client is the environment: the model records every call it  *)
(* receives during an operation (verb, url, positional and keyword         *)
(* arguments) together with the value of its auth slot at that moment.     *)
(***************************************************************************)
EXTENDS Naturals, Sequences, FiniteSets, TLC

VARIABLES
    uri,        \* self._uri
    auth,       \* self._session.auth
    call,       \* the operation invoked last on the session, with its arguments
    result,     \* what that operation returned or raised
    sent,       \* the calls the wrapped client received during that operation
    ctor_uri,   \* history: the uri argument of the constructor
    written     \* history: the value most recently assigned to session.auth

vars == <<uri, auth, call, result, sent, ctor_uri, written>>

(***************************************************************************)
(* Bounds of the model.                                                    *)
(***************************************************************************)
\* Values of the files dictionary have 2..MaxArity components.
MaxArity == 4

(***************************************************************************)
(* Python values.  Every value is a record tagged by its type; a dict is   *)
(* the sequence of its (key, value) pairs in insertion order.              *)
(***************************************************************************)
None == [t |-> "None"]
Str(s) == [t |-> "str", v |-> s]
List(xs) == [t |-> "list", items |-> xs]
Tuple(xs) == [t |-> "tuple", items |-> xs]
Dict(kvs) == [t |-> "dict", items |-> kvs]
\* The str that json.dumps returns, as the sequence of its lexical tokens.
JsonText(toks) == [t |-> "json", toks |-> toks]

\* bool(x), as `if x:` and `not x` evaluate it
Truthy(x) ==
    CASE x.t = "None" -> FALSE
      [] x.t = "str" -> x.v # ""
      [] x.t = "json" -> TRUE
      [] OTHER -> Len(x.items) > 0

\* len(x)
PyLen(x) == Len(x.items)

\* d.keys(), in order
Keys(d) == [i \in 1..Len(d.items) |-> d.items[i][1]]

\* set(d.keys())
KeySet(d) == {d.items[i][1] : i \in 1..Len(d.items)}

\* d.values(), in order
Values(d) == [i \in 1..Len(d.items) |-> d.items[i][2]]

\* key in d
HasKey(d, k) == k \in KeySet(d)

\* d[k]
Get(d, k) == d.items[CHOOSE i \in 1..Len(d.items) : d.items[i][1] = k][2]

(***************************************************************************)
(* json.dumps and json.loads.  The text is modelled as its token sequence: *)
(* a string is written between two quote tokens, None as null, a list or   *)
(* tuple between brackets, a dict between braces with string keys.         *)
(***************************************************************************)
Quote == "\""

RECURSIVE JsonTokens(_)
RECURSIVE JoinItems(_, _)
RECURSIVE JoinMembers(_, _)

\* the elements of a list from index i on, separated by ", "
JoinItems(xs, i) ==
    IF i > Len(xs) THEN <<>>
    ELSE JsonTokens(xs[i])
         \o (IF i < Len(xs) THEN <<", ">> ELSE <<>>)
         \o JoinItems(xs, i + 1)

\* the members of a dict from index i on, each "key": value, separated by ", "
JoinMembers(kvs, i) ==
    IF i > Len(kvs) THEN <<>>
    ELSE <<Quote, kvs[i][1], Quote, ": ">>
         \o JsonTokens(kvs[i][2])
         \o (IF i < Len(kvs) THEN <<", ">> ELSE <<>>)
         \o JoinMembers(kvs, i + 1)

JsonTokens(x) ==
    CASE x.t = "None" -> <<"null">>
      [] x.t = "str" -> <<Quote, x.v, Quote>>
      [] x.t \in {"list", "tuple"} -> <<"[">> \o JoinItems(x.items, 1) \o <<"]">>
      [] x.t = "dict" -> <<"{">> \o JoinMembers(x.items, 1) \o <<"}">>

\* json.dumps(x)
JsonDumps(x) == JsonText(JsonTokens(x))

Rest(toks, n) == SubSeq(toks, n + 1, Len(toks))

RECURSIVE ParseValue(_)
RECURSIVE ParseItems(_, _)
RECURSIVE ParseMembers(_, _)

\* the elements of a list up to its closing bracket
ParseItems(toks, acc) ==
    LET r == ParseValue(toks) IN
    IF r.rest[1] = ", "
        THEN ParseItems(Rest(r.rest, 1), Append(acc, r.val))
        ELSE [val |-> List(Append(acc, r.val)), rest |-> Rest(r.rest, 1)]

\* the members of an object up to its closing brace
ParseMembers(toks, acc) ==
    LET key == toks[2]
        r == ParseValue(Rest(toks, 4))
    IN  IF r.rest[1] = ", "
            THEN ParseMembers(Rest(r.rest, 1), Append(acc, <<key, r.val>>))
            ELSE [val |-> Dict(Append(acc, <<key, r.val>>)), rest |-> Rest(r.rest, 1)]

\* one JSON value at the head of toks, and the tokens after it
ParseValue(toks) ==
    CASE toks[1] = "null" -> [val |-> None, rest |-> Rest(toks, 1)]
      [] toks[1] = Quote -> [val |-> Str(toks[2]), rest |-> Rest(toks, 3)]
      [] toks[1] = "[" ->
            IF toks[2] = "]" THEN [val |-> List(<<>>), rest |-> Rest(toks, 2)]
            ELSE ParseItems(Rest(toks, 1), <<>>)
      [] toks[1] = "{" ->
            IF toks[2] = "}" THEN [val |-> Dict(<<>>), rest |-> Rest(toks, 2)]
            ELSE ParseMembers(Rest(toks, 1), <<>>)

\* json.loads(s)
JsonLoads(s) == ParseValue(s.toks).val

(***************************************************************************)
(* Outcomes of an operation.                                               *)
(***************************************************************************)
NoError == [kind |-> "ok"]
Raise(type, msg) == [kind |-> "raise", type |-> type, msg |-> msg]
\* the Response the client returned for the call req
Response(req) == [kind |-> "response", to |-> req]
Returned(v) == [kind |-> "value", value |-> v]

\* The messages, cut into fragments so that a phrase can be looked for.
MsgFileMapRequires ==
    <<"The ", "file_map", " argument ", "requires", " the ", "variables", " and ", "files", " arguments">>
MsgFilesRequires ==
    <<"The ", "files", " argument ", "requires", " the ", "variables", " and ", "file_map", " arguments">>
MsgSameKeys ==
    <<"The file map and the files dictionary must have the ", "same keys">>
Msg3Tuples ==
    <<"The values of the files directory must be ", "3-tuple", "s with the filename, ",
      "the file object and the content type">>
MsgNoAttribute(item) ==
    <<"The Session class has no attribute '", item, "'">>

\* `phrase in str(excinfo.value)`
Mentions(r, phrase) == \E i \in 1..Len(r.msg) : r.msg[i] = phrase

(***************************************************************************)
(* GraphQLSession.query                                                    *)
(***************************************************************************)
\* variant: the companions are tested with `and` where the method has `or`
CheckArguments_And(variables, file_map, files) ==
    IF Truthy(file_map) /\ (~Truthy(variables) /\ ~Truthy(files))
        THEN Raise("ValueError", MsgFileMapRequires)
    ELSE IF Truthy(files) /\ (~Truthy(variables) /\ ~Truthy(file_map))
        THEN Raise("ValueError", MsgFilesRequires)
    ELSE NoError

\* sanity check: have all required arguments been supplied?
CheckArguments(variables, file_map, files) ==
    IF Truthy(file_map) /\ (~Truthy(variables) \/ ~Truthy(files))
        THEN Raise("ValueError", MsgFileMapRequires)
    ELSE IF Truthy(files) /\ (~Truthy(variables) \/ ~Truthy(file_map))
        THEN Raise("ValueError", MsgFilesRequires)
    ELSE NoError

\* variant: only a file_map key without a file is noticed
CheckKeys_OneWay(file_map, files) ==
    IF Truthy(file_map) /\ Truthy(files) /\ ~(KeySet(file_map) \subseteq KeySet(files))
        THEN Raise("ValueError", MsgSameKeys)
    ELSE NoError

\* sanity check: are the files and the file map consistent?
CheckKeys(file_map, files) ==
    IF Truthy(file_map) /\ Truthy(files) /\ KeySet(file_map) # KeySet(files)
        THEN Raise("ValueError", MsgSameKeys)
    ELSE NoError

\* variant: only the first value is measured
CheckFileValues_FirstOnly(files) ==
    IF Truthy(files) /\ PyLen(Values(files)[1]) # 3
        THEN Raise("ValueError", Msg3Tuples)
    ELSE NoError

\* sanity check: are the file values complete?
CheckFileValues(files) ==
    IF Truthy(files) /\ \E i \in 1..PyLen(files) : PyLen(Values(files)[i]) # 3
        THEN Raise("ValueError", Msg3Tuples)
    ELSE NoError

\* variant: the key sets are never compared
Validate_NoKeyCheck(variables, file_map, files) ==
    IF CheckArguments(variables, file_map, files) # NoError
        THEN CheckArguments(variables, file_map, files)
    ELSE CheckFileValues(files)

\* the three checks in the order the method makes them; the first failure is raised
Validate(variables, file_map, files) ==
    IF CheckArguments(variables, file_map, files) # NoError
        THEN CheckArguments(variables, file_map, files)
    ELSE IF CheckKeys(file_map, files) # NoError
        THEN CheckKeys(file_map, files)
    ELSE CheckFileValues(files)

\* a call of a method of the wrapped client, which sends under its auth slot
ClientCall(verb, url, args, kwargs) ==
    [verb |-> verb, url |-> url, args |-> args, kwargs |-> kwargs, auth |-> auth]

\* variant: the variables key is always written
PlainPayload_Always(query_string, variables) ==
    Dict(<< <<"query", Str(query_string)>>, <<"variables", variables>> >>)

\* query without file upload
PlainPayload(query_string, variables) ==
    IF Truthy(variables)
        THEN Dict(<< <<"query", Str(query_string)>>, <<"variables", variables>> >>)
        ELSE Dict(<< <<"query", Str(query_string)>> >>)

PlainPost(query_string, variables) ==
    ClientCall("post", uri, <<>>,
               Dict(<< <<"json", PlainPayload(query_string, variables)>> >>))

\* variant: the operations carry the query only
Operations_QueryOnly(query_string, variables) ==
    Dict(<< <<"query", Str(query_string)>> >>)

\* query with file upload
Operations(query_string, variables) ==
    Dict(<< <<"query", Str(query_string)>>, <<"variables", variables>> >>)

UploadData(query_string, variables, file_map) ==
    Dict(<< <<"operations", JsonDumps(Operations(query_string, variables))>>,
            <<"map", JsonDumps(file_map)>> >>)

FileData(files) ==
    Dict([i \in 1..PyLen(files) |-> <<Keys(files)[i], Get(files, Keys(files)[i])>>])

UploadPost(query_string, variables, file_map, files) ==
    ClientCall("post", uri, <<>>,
               Dict(<< <<"data", UploadData(query_string, variables, file_map)>>,
                       <<"files", FileData(files)>> >>))

\* the request the method sends once the checks have passed
QueryPost(query_string, variables, file_map, files) ==
    IF ~Truthy(files) \/ PyLen(files) = 0
        THEN PlainPost(query_string, variables)
        ELSE UploadPost(query_string, variables, file_map, files)

\* variant: the post is made before the checks
QuerySent_BeforeChecks(query_string, variables, file_map, files) ==
    <<QueryPost(query_string, variables, file_map, files)>>

\* the calls the client has received when the method returns or raises: the checks
\* come first, and a failed check raises before the one post
QuerySent(query_string, variables, file_map, files) ==
    IF Validate(variables, file_map, files) # NoError
        THEN <<>>
        ELSE <<QueryPost(query_string, variables, file_map, files)>>

\* what the method raises or returns
QueryResult(query_string, variables, file_map, files) ==
    IF Validate(variables, file_map, files) # NoError
        THEN Validate(variables, file_map, files)
        ELSE Response(QueryPost(query_string, variables, file_map, files))

\* session.query(query_string, variables, file_map, files)
Query(query_string, variables, file_map, files) ==
    /\ call' = [op |-> "query", query_string |-> query_string,
                variables |-> variables, file_map |-> file_map, files |-> files]
    /\ sent' = QuerySent(query_string, variables, file_map, files)
    /\ result' = QueryResult(query_string, variables, file_map, files)
    /\ UNCHANGED <<uri, auth, ctor_uri, written>>

(***************************************************************************)
(* GraphQLSession.__getattr__ and the verb wrappers                        *)
(***************************************************************************)
HTTP_VERBS == {"get", "post", "put", "patch", "delete", "options", "head"}

\* the names hasattr(self._session, item) holds for, among those tried here
ClientAttributes == HTTP_VERBS \cup {"headers", "cookies", "request", "close"}

\* variant: no sanity check that the client has the attribute
GetAttrValue_NoCheck(item) ==
    IF item \in HTTP_VERBS
        THEN [kind |-> "wrapper", verb |-> item]
    ELSE [kind |-> "delegated", attr |-> item]

\* the value of session.<item> for a name the class does not define itself
GetAttrValue(item) ==
    IF item \notin ClientAttributes
        THEN Raise("AttributeError", MsgNoAttribute(item))
    ELSE IF item \in HTTP_VERBS
        THEN [kind |-> "wrapper", verb |-> item]
    ELSE [kind |-> "delegated", attr |-> item]

\* variant: the wrapper does not put the session's URI first
WrapperCall_NoUri(f, args, kwargs) ==
    IF args = <<>>
        THEN ClientCall(f.verb, "", args, kwargs)
        ELSE ClientCall(f.verb, args[1].v, Tail(args), kwargs)

\* the call f(*args, **kwargs) of the wrapper returned for a verb
WrapperCall(f, args, kwargs) == ClientCall(f.verb, uri, args, kwargs)

\* session.<item>, not called
GetAttr(item) ==
    /\ call' = [op |-> "getattr", item |-> item]
    /\ result' = GetAttrValue(item)
    /\ sent' = <<>>
    /\ UNCHANGED <<uri, auth, ctor_uri, written>>

\* session.<verb>(*args, **kwargs)
VerbCall(item, args, kwargs) ==
    /\ GetAttrValue(item).kind = "wrapper"
    /\ call' = [op |-> "verb", item |-> item, args |-> args, kwargs |-> kwargs]
    /\ sent' = <<WrapperCall(GetAttrValue(item), args, kwargs)>>
    /\ result' = Response(sent'[1])
    /\ UNCHANGED <<uri, auth, ctor_uri, written>>

(***************************************************************************)
(* GraphQLSession.auth                                                     *)
(***************************************************************************)
\* the slot the getter reads
AuthGetter == auth

\* variant: the setter does not reach the client's slot
AuthSetter_Lost(a) == auth

\* the slot after the setter has run with value a
AuthSetter(a) == a

\* session.auth
GetAuth ==
    /\ call' = [op |-> "get_auth"]
    /\ result' = Returned(AuthGetter)
    /\ sent' = <<>>
    /\ UNCHANGED <<uri, auth, ctor_uri, written>>

\* session.auth = a
SetAuth(a) ==
    /\ call' = [op |-> "set_auth", value |-> a]
    /\ auth' = AuthSetter(a)
    /\ written' = a
    /\ result' = NoError
    /\ sent' = <<>>
    /\ UNCHANGED <<uri, ctor_uri>>

(***************************************************************************)
(* Inputs                                                                  *)
(***************************************************************************)
URIs == {"http://fvmdolr.ac.za", "http://localhost:5000/graphql"}

QueryStrings == {"query { greet }", "query { block { id } }"}

VariablesArgs ==
    {None, Dict(<<>>), Dict(<< <<"name", Str("John Doe")>>, <<"message", None>> >>)}

FileKeys == {"0", "1"}

\* the orders in which distinct keys can have been inserted into a dict
KeyOrders ==
    {ks \in UNION {[1..n -> FileKeys] : n \in 0..Cardinality(FileKeys)} :
        \A i, j \in 1..Len(ks) : i # j => ks[i] # ks[j]}

FileMapArgs ==
    {None} \cup
    {Dict([i \in 1..Len(ks) |-> <<ks[i], List(<<Str("variables." \o ks[i])>>)>>]) :
        ks \in KeyOrders}

Arities == 2..MaxArity

\* a files value for key k with n components
FileTuple(k, n) ==
    Tuple([i \in 1..n |->
            CASE i = 1 -> Str("file" \o k \o ".txt")
              [] i = 2 -> Str("content of " \o k)
              [] i = 3 -> Str("text/plain")
              [] OTHER -> Str("extra")])

\* the files dictionaries tried: every key set, every arity of every value
FilesKeyOrders == {<<>>, <<"0">>, <<"1">>, <<"0", "1">>}

FilesArgs ==
    {None} \cup
    UNION {{Dict([i \in 1..Len(ks) |-> <<ks[i], FileTuple(ks[i], ar[i])>>]) :
                ar \in [1..Len(ks) -> Arities]} : ks \in FilesKeyOrders}

AttributeNames == ClientAttributes \cup {"graphql", "uri"}

ArgsChoices == {<<>>, <<Str("positional")>>}

KwargsChoices == {Dict(<<>>), Dict(<< <<"timeout", Str("5")>> >>)}

TokenAuth(token) == [t |-> "TokenAuth", token |-> token]

AuthValues == {None, TokenAuth("sometoken"), TokenAuth("othertoken")}

(***************************************************************************)
(* The session after GraphQLSession(u), and its operations.                *)
(***************************************************************************)
Init ==
    /\ uri \in URIs
    /\ ctor_uri = uri
    /\ auth = None
    /\ written = None
    /\ sent = <<>>
    /\ call = [op |-> "init"]
    /\ result = NoError

Next ==
    \/ \E q \in QueryStrings, v \in VariablesArgs, m \in FileMapArgs, f \in FilesArgs :
            Query(q, v, m, f)
    \/ \E item \in AttributeNames : GetAttr(item)
    \/ \E item \in HTTP_VERBS, args \in ArgsChoices, kwargs \in KwargsChoices :
            VerbCall(item, args, kwargs)
    \/ GetAuth
    \/ \E a \in AuthValues : SetAuth(a)

Spec == Init /\ [][Next]_vars

(***************************************************************************)
(* Vocabulary of the properties.                                           *)
(***************************************************************************)
IsQuery == call.op = "query"

\* the argument was passed (it is not the default None)
Given(x) == x # None

Raised == result.kind = "raise"

InvalidArguments ==
    /\ Raised
    /\ result.type = "ValueError"
    /\ Mentions(result, "requires")

InconsistentFileMap ==
    /\ Raised
    /\ result.type = "ValueError"
    /\ Mentions(result, "same keys")

MalformedFileEntry ==
    /\ Raised
    /\ result.type = "ValueError"
    /\ Mentions(result, "3-tuple")

\* some value of the files dictionary has not exactly 3 components
HasMalformedEntry(files) ==
    \E i \in 1..PyLen(files) : PyLen(Values(files)[i]) # 3

\* the operation sent exactly one POST to the bound URI, with no positional extras
OnePostToUri ==
    /\ Len(sent) = 1
    /\ sent[1].verb = "post"
    /\ sent[1].url = uri
    /\ sent[1].args = <<>>

IsJsonPost(req) == KeySet(req.kwargs) = {"json"}

IsUploadPost(req) == KeySet(req.kwargs) = {"data", "files"}

(***************************************************************************)
(* C1, as stated: whenever file_map is passed but variables or files is    *)
(* not, or files is passed but variables or file_map is not, the call      *)
(* raises InvalidArguments; an empty mapping counts as passed.             *)
(***************************************************************************)
C1_AsStated ==
    IsQuery =>
        ((\/ Given(call.file_map) /\ (~Given(call.variables) \/ ~Given(call.files))
          \/ Given(call.files) /\ (~Given(call.variables) \/ ~Given(call.file_map)))
            => InvalidArguments)

(***************************************************************************)
(* C1, amended: whenever file_map is a non-empty mapping while variables   *)
(* or files is None or empty, the call raises the ValueError "The file_map *)
(* argument requires the variables and files arguments"; otherwise,        *)
(* whenever files is a non-empty mapping while variables or file_map is    *)
(* None or empty, it raises "The files argument requires the variables and *)
(* file_map arguments".                                                    *)
(***************************************************************************)
C1_CompanionArguments ==
    IsQuery =>
        /\ (Truthy(call.file_map) /\ (~Truthy(call.variables) \/ ~Truthy(call.files))
                => InvalidArguments /\ result.msg = MsgFileMapRequires)
        /\ (~Truthy(call.file_map) /\ Truthy(call.files)
                => InvalidArguments /\ result.msg = MsgFilesRequires)

C1_Witness ==
    /\ IsQuery
    /\ Truthy(call.file_map)
    /\ Truthy(call.variables)
    /\ call.files = Dict(<<>>)
    /\ InvalidArguments

(***************************************************************************)
(* C2, as stated: whenever file_map and files are both passed and their    *)
(* key sets differ, the call raises InconsistentFileMap ("same keys").     *)
(***************************************************************************)
C2_AsStated ==
    IsQuery /\ Given(call.file_map) /\ Given(call.files)
            /\ KeySet(call.file_map) # KeySet(call.files)
        => InconsistentFileMap

(***************************************************************************)
(* C2, amended: whenever variables, file_map and files are all non-empty   *)
(* and the key sets of file_map and files differ, the call raises          *)
(* InconsistentFileMap, the ValueError that says "same keys".              *)
(***************************************************************************)
C2_KeySetsMustAgree ==
    IsQuery /\ Truthy(call.variables) /\ Truthy(call.file_map) /\ Truthy(call.files)
            /\ KeySet(call.file_map) # KeySet(call.files)
        => InconsistentFileMap

C2_Witness ==
    /\ IsQuery
    /\ Truthy(call.variables)
    /\ Truthy(call.file_map)
    /\ Truthy(call.files)
    /\ KeySet(call.file_map) = {"0"}
    /\ KeySet(call.files) = {"0", "1"}
    /\ InconsistentFileMap

(***************************************************************************)
(* C3, as stated: whenever files holds a value that has not exactly 3      *)
(* components, the call raises MalformedFileEntry ("3-tuple").             *)
(***************************************************************************)
C3_AsStated ==
    IsQuery /\ Given(call.files) /\ HasMalformedEntry(call.files)
        => MalformedFileEntry

(***************************************************************************)
(* C3, amended: whenever variables, file_map and files are all non-empty,  *)
(* file_map and files have the same key set, and some value of files has   *)
(* not exactly 3 components, the call raises MalformedFileEntry, the       *)
(* ValueError that says "3-tuple"; one such value among well-formed ones   *)
(* is enough.                                                              *)
(***************************************************************************)
C3_FileValuesAreTriples ==
    IsQuery /\ Truthy(call.variables) /\ Truthy(call.file_map) /\ Truthy(call.files)
            /\ KeySet(call.file_map) = KeySet(call.files)
            /\ HasMalformedEntry(call.files)
        => MalformedFileEntry

C3_Witness ==
    /\ IsQuery
    /\ Truthy(call.files)
    /\ PyLen(call.files) = 2
    /\ PyLen(Values(call.files)[1]) = 3
    /\ PyLen(Values(call.files)[2]) # 3
    /\ MalformedFileEntry

(***************************************************************************)
(* C4: a query that ends in one of the three validation errors has issued  *)
(* no request to the client, and the bound URI and the auth slot are what  *)
(* they were; a ValueError of query is always one of those three.          *)
(***************************************************************************)
C4_ValidationBeforeSend ==
    IsQuery /\ Raised =>
        /\ InvalidArguments \/ InconsistentFileMap \/ MalformedFileEntry
        /\ sent = <<>>
        /\ uri = ctor_uri
        /\ auth = written

C4_Witness ==
    /\ IsQuery
    /\ MalformedFileEntry
    /\ sent = <<>>
    /\ written # None

(***************************************************************************)
(* C5: a query that passes validation with files None or empty issues      *)
(* exactly one POST to the bound URI whose json payload has "query" equal  *)
(* to the query string, has "variables" equal to the variables argument    *)
(* exactly when that argument is a non-empty mapping, and has no other key.*)
(***************************************************************************)
C5_PlainPayload ==
    IsQuery /\ ~Raised /\ ~Truthy(call.files) =>
        /\ OnePostToUri
        /\ IsJsonPost(sent[1])
        /\ LET payload == Get(sent[1].kwargs, "json") IN
            /\ payload.t = "dict"
            /\ Get(payload, "query") = Str(call.query_string)
            /\ HasKey(payload, "variables") <=> Truthy(call.variables)
            /\ HasKey(payload, "variables") =>
                    Get(payload, "variables") = call.variables
            /\ KeySet(payload) \subseteq {"query", "variables"}
            /\ Len(payload.items) = Cardinality(KeySet(payload))

C5_Witness ==
    /\ IsQuery
    /\ ~Raised
    /\ call.files = Dict(<<>>)
    /\ call.variables = Dict(<<>>)
    /\ Len(sent) = 1
    /\ KeySet(Get(sent[1].kwargs, "json")) = {"query"}

(***************************************************************************)
(* C6: a query that passes validation with a non-empty files mapping       *)
(* issues exactly one POST to the bound URI, with data fields 'operations' *)
(* and 'map' only; 'operations' decodes to {query: the query string,       *)
(* variables: the variables argument}, 'map' decodes to file_map, and the  *)
(* file parts are one per key of files, each with that key's triple.       *)
(***************************************************************************)
C6_UploadPayload ==
    IsQuery /\ ~Raised /\ Truthy(call.files) =>
        /\ OnePostToUri
        /\ IsUploadPost(sent[1])
        /\ LET data == Get(sent[1].kwargs, "data")
               parts == Get(sent[1].kwargs, "files")
           IN
            /\ Keys(data) = <<"operations", "map">>
            /\ Get(data, "operations").t = "json"
            /\ Get(data, "map").t = "json"
            /\ JsonLoads(Get(data, "operations")) =
                    Dict(<< <<"query", Str(call.query_string)>>,
                            <<"variables", call.variables>> >>)
            /\ JsonLoads(Get(data, "map")) = call.file_map
            /\ KeySet(parts) = KeySet(call.files)
            /\ Len(parts.items) = Cardinality(KeySet(call.files))
            /\ \A k \in KeySet(call.files) : Get(parts, k) = Get(call.files, k)

C6_Witness ==
    /\ IsQuery
    /\ ~Raised
    /\ Truthy(call.files)
    /\ PyLen(call.files) = 2
    /\ Keys(call.file_map) # Keys(call.files)
    /\ Len(sent) = 1
    /\ IsUploadPost(sent[1])

(***************************************************************************)
(* C7: the session's URI is always the one given to the constructor; every *)
(* request issued has it as its target; and a verb called without a URL    *)
(* reaches the client as <verb>(uri, *args, **kwargs), with the caller's   *)
(* positional and keyword arguments as given.                              *)
(***************************************************************************)
C7_BoundUri ==
    /\ uri = ctor_uri
    /\ \A i \in 1..Len(sent) : sent[i].url = ctor_uri
    /\ call.op = "verb" =>
        /\ Len(sent) = 1
        /\ sent[1].verb = call.item
        /\ sent[1].args = call.args
        /\ sent[1].kwargs = call.kwargs

C7_Witness ==
    /\ call.op = "verb"
    /\ call.item = "delete"
    /\ call.args # <<>>
    /\ Truthy(call.kwargs)
    /\ Len(sent) = 1
    /\ sent[1].url = ctor_uri

(***************************************************************************)
(* C8: the client's auth slot always holds the value most recently written *)
(* to session.auth (None before any write), whatever queries and verb      *)
(* calls came in between; reading session.auth returns it; and every       *)
(* request is issued under it.                                             *)
(***************************************************************************)
C8_AuthPassthrough ==
    /\ auth = written
    /\ call.op = "get_auth" => result = Returned(written)
    /\ \A i \in 1..Len(sent) : sent[i].auth = written

C8_Witness ==
    /\ IsQuery
    /\ Truthy(call.files)
    /\ Len(sent) = 1
    /\ written = TokenAuth("othertoken")
    /\ sent[1].auth = TokenAuth("othertoken")

(***************************************************************************)
(* C9: reading an attribute the client lacks raises an AttributeError that *)
(* names it; reading a non-verb attribute of the client yields the         *)
(* client's attribute; a wrapper that injects the URI is returned for the  *)
(* 7 verb names and for no other; and reading an attribute issues no       *)
(* request.                                                                *)
(***************************************************************************)
C9_AttributeAccess ==
    call.op = "getattr" =>
        /\ sent = <<>>
        /\ call.item \notin ClientAttributes =>
                /\ Raised
                /\ result.type = "AttributeError"
                /\ Mentions(result, call.item)
        /\ call.item \in ClientAttributes \ HTTP_VERBS =>
                result = [kind |-> "delegated", attr |-> call.item]
        /\ result.kind = "wrapper" <=>
                call.item \in {"get", "post", "put", "patch", "delete", "options", "head"}
        /\ result.kind = "wrapper" => result.verb = call.item

C9_Witness ==
    /\ call.op = "getattr"
    /\ call.item = "graphql"
    /\ Raised
    /\ Mentions(result, "graphql")
    /\ sent = <<>>

(***************************************************************************)
(* C10: every upload POST of query was built from arguments that satisfy   *)
(* all four data-model invariants: variables, file_map and files non-empty,*)
(* equal key sets, every files value of 3 components; so its file-part     *)
(* names are the keys of its 'map' field.  A query sends an upload POST    *)
(* exactly when files is non-empty and validation passed, and a JSON POST  *)
(* when validation passed otherwise.                                       *)
(***************************************************************************)
C10_UploadsAreWellFormed ==
    IsQuery =>
        /\ \A i \in 1..Len(sent) : IsUploadPost(sent[i]) =>
            /\ Truthy(call.variables) /\ Truthy(call.file_map) /\ Truthy(call.files)
            /\ KeySet(call.file_map) = KeySet(call.files)
            /\ ~HasMalformedEntry(call.files)
            /\ KeySet(Get(sent[i].kwargs, "files")) =
                    KeySet(JsonLoads(Get(Get(sent[i].kwargs, "data"), "map")))
        /\ (\E i \in 1..Len(sent) : IsUploadPost(sent[i]))
                <=> (Truthy(call.files) /\ ~Raised)
        /\ ~Raised /\ ~Truthy(call.files) => Len(sent) = 1 /\ IsJsonPost(sent[1])
        /\ Len(sent) <= 1

C10_Witness ==
    /\ IsQuery
    /\ Len(sent) = 1
    /\ IsUploadPost(sent[1])
    /\ KeySet(JsonLoads(Get(Get(sent[1].kwargs, "data"), "map"))) = {"0", "1"}

====
